---- MODULE Spec2Model ----
(***************************************************************************)
(* Durable document store of the personal dashboard (src/lib/store.ts):    *)
(* the normalizer, the atomic writer, the recovery loader, the promise     *)
(* chain that serializes queued jobs, and the mutation transaction.        *)
(*                                                                         *)
(* JSON values are tagged records: [t |-> "str", s |-> <<chars>>],         *)
(* [t |-> "num", n |-> Int, half |-> BOOLEAN] (n + 1/2 when half),         *)
(* [t |-> "bool", b |-> BOOLEAN], [t |-> "null"], [t |-> "undef"] (a       *)
(* missing key), [t |-> "arr", a |-> <<values>>], [t |-> "obj", f |-> a    *)
(* record of values].  Strings are sequences of one-character strings.     *)
(***************************************************************************)
EXTENDS Integers, Sequences, FiniteSets, TLC

VARIABLES
    fs,          \* path -> content of dashboard.json, .backup.json, .json.tmp
    calls,       \* call id -> the state of one readData/writeData/updateData call
    writeQueue,  \* the call whose chained promise is the current writeQueue (0: the initial resolved promise)
    faults,      \* I/O failures and throwing callbacks the environment may still inject
    now,         \* the clock read by new Date(): it advances with every call
    epoch        \* 0 before, 1 after a process crash and restart

vars == <<fs, calls, writeQueue, faults, now, epoch>>

-----------------------------------------------------------------------------
(* JSON values *)

JNull == [t |-> "null"]
JUndef == [t |-> "undef"]
JStr(s) == [t |-> "str", s |-> s]
JBool(b) == [t |-> "bool", b |-> b]
JNum(n) == [t |-> "num", n |-> n, half |-> FALSE]
JArr(a) == [t |-> "arr", a |-> a]
JObj(f) == [t |-> "obj", f |-> f]

Get(v, key) == IF v.t = "obj" /\ key \in DOMAIN v.f THEN v.f[key] ELSE JUndef

isRecord(v) == v.t \in {"obj", "arr"}

IsArray(v) == v.t = "arr"

Blank == " "

RECURSIVE TrimLeft(_)
TrimLeft(s) == IF s # <<>> /\ Head(s) = Blank THEN TrimLeft(Tail(s)) ELSE s

RECURSIVE TrimRight(_)
TrimRight(s) ==
    IF s # <<>> /\ s[Len(s)] = Blank THEN TrimRight(SubSeq(s, 1, Len(s) - 1)) ELSE s

Trim(s) == TrimRight(TrimLeft(s))

asTrimmedString(value) ==
    IF value.t # "str" THEN JNull
    ELSE IF Trim(value.s) # <<>> THEN JStr(Trim(value.s)) ELSE JNull

Digits == <<"0", "1", "2", "3", "4", "5", "6", "7", "8", "9">>

DigitSet == {Digits[i] : i \in 1..10}

DigitValue(c) == (CHOOSE i \in 1..10 : Digits[i] = c) - 1

RECURSIVE Decimal(_)
Decimal(n) == IF n < 10 THEN <<Digits[n + 1]>> ELSE Decimal(n \div 10) \o <<Digits[(n % 10) + 1]>>

(* Date.parse: the ISO form of instant d is <<"T", d>>; <<"D", d>> is another
   form Date.parse accepts for the same instant (a date written differently);
   every other string is not a date (NaN). *)
IsoOf(n) == <<"T">> \o Decimal(n)

RECURSIVE AllDigits(_)
AllDigits(s) == s = <<>> \/ (Head(s) \in DigitSet /\ AllDigits(Tail(s)))

RECURSIVE DecimalValue(_)
DecimalValue(s) ==
    IF s = <<>> THEN 0 ELSE DecimalValue(SubSeq(s, 1, Len(s) - 1)) * 10 + DigitValue(s[Len(s)])

DateParses(s) == Len(s) >= 2 /\ Head(s) \in {"T", "D"} /\ AllDigits(Tail(s))

DateParse(s) == DecimalValue(Tail(s))

asIsoString(value, fallback) ==
    IF value.t # "str" THEN fallback
    ELSE IF ~DateParses(value.s) THEN fallback
    ELSE JStr(IsoOf(DateParse(value.s)))

asOptionalIsoString(value) ==
    IF value.t # "str" THEN JNull
    ELSE IF ~DateParses(value.s) THEN JNull
    ELSE JStr(IsoOf(DateParse(value.s)))

IdChars ==
    DigitSet \cup {"a", "b", "c", "d", "e", "f", "g", "h", "i", "j", "k", "l", "m", "n", "o",
                   "p", "q", "r", "s", "t", "u", "v", "w", "x", "y", "z", "T", "D", "H", "_", "-"}

RECURSIVE KeepIdChars(_)
KeepIdChars(s) ==
    IF s = <<>> THEN <<>>
    ELSE IF Head(s) \in IdChars THEN <<Head(s)>> \o KeepIdChars(Tail(s))
    ELSE KeepIdChars(Tail(s))

FallbackSeedMax == 16

Slice(s, n) == IF Len(s) <= n THEN s ELSE SubSeq(s, 1, n)

asFallbackId(prefix, index, seed) ==
    LET raw == IF seed.t = "str" THEN seed.s ELSE Decimal(index)
        kept == Slice(KeepIdChars(raw), FallbackSeedMax)
        compact == IF kept # <<>> THEN kept ELSE Decimal(index)
    IN  JStr(prefix \o <<"-">> \o compact \o <<"-">> \o Decimal(index))

(* Number(value): [nan |-> TRUE] or [nan |-> FALSE, n, half]. *)
NaN == [nan |-> TRUE, n |-> 0, half |-> FALSE]

Finite(n, half) == [nan |-> FALSE, n |-> n, half |-> half]

ToNumber(value) ==
    CASE value.t = "num" -> Finite(value.n, value.half)
      [] value.t = "bool" -> Finite(IF value.b THEN 1 ELSE 0, FALSE)
      [] value.t = "null" -> Finite(0, FALSE)
      [] value.t = "str" ->
            IF Trim(value.s) = <<>> THEN Finite(0, FALSE)
            ELSE IF AllDigits(Trim(value.s)) THEN Finite(DecimalValue(Trim(value.s)), FALSE)
            ELSE NaN
      [] value.t = "arr" -> IF value.a = <<>> THEN Finite(0, FALSE) ELSE NaN
      [] OTHER -> NaN

asNonNegativeInteger(value, fallback) ==
    LET next == ToNumber(value)
    IN  IF next.nan THEN fallback
        ELSE IF next.n < 0 THEN 0
        ELSE next.n

validPriorities == {<<"h", "i", "g", "h">>, <<"m", "e", "d", "i", "u", "m">>, <<"l", "o", "w">>}

Medium == <<"m", "e", "d", "i", "u", "m">>

(* A coercion that takes only the boolean true for true: value === true. *)
TruthyOnlyTrue(value) == value.t = "bool" /\ value.b

(* Boolean(value): JavaScript truthiness. *)
Truthy(value) ==
    CASE value.t = "bool" -> value.b
      [] value.t = "num" -> value.n # 0 \/ value.half
      [] value.t = "str" -> value.s # <<>>
      [] value.t \in {"null", "undef"} -> FALSE
      [] OTHER -> TRUE

(* new URL(trimmed): a string parses as a URL when its first character names
   a scheme and a host follows: "h" http(s) in lower case, "H" the same
   written in upper case, "f" another scheme (ftp, file, javascript).
   toString() writes the scheme in lower case and ends a bare host with "/". *)
UrlParses(s) == Len(s) >= 2 /\ Head(s) \in {"h", "H", "f"} /\ Blank \notin {s[i] : i \in 1..Len(s)}

(* A check of the protocol that lets every parsable URL through. *)
UrlProtocolAny(s) == TRUE

UrlProtocolIsHttp(s) == Head(s) \in {"h", "H"}

(* parsed.toString(): the scheme in lower case, and a path. *)
UrlToString(s) ==
    LET body == IF s[Len(s)] = "/" THEN Tail(s) ELSE Tail(s) \o <<"/">>
    IN  <<IF Head(s) = "H" THEN "h" ELSE Head(s)>> \o body

normalizeLaunchpadUrl(value) ==
    IF value.t # "str" THEN JNull
    ELSE IF Trim(value.s) = <<>> THEN JNull
    ELSE IF ~UrlParses(Trim(value.s)) THEN JNull
    ELSE IF ~UrlProtocolIsHttp(Trim(value.s)) THEN JNull
    ELSE JStr(UrlToString(Trim(value.s)))

(* An id that is regenerated whether or not one was stored. *)
OrElseRegenerate(a, b) == b

OrElse(a, b) == IF a.t = "null" THEN b ELSE a

PrefixTask == <<"t", "a", "s", "k">>
PrefixFocus == <<"f", "o", "c", "u", "s">>
PrefixJournal == <<"j", "o", "u", "r", "n", "a", "l">>
PrefixEvent == <<"e", "v", "e", "n", "t">>
PrefixLaunchpad == <<"l", "a", "u", "n", "c", "h", "p", "a", "d">>

(* One element of candidate.tasks.flatMap: <<>> or a one-element sequence. *)
normalizeTask(item, index, clock) ==
    IF ~isRecord(item) THEN <<>>
    ELSE LET title == asTrimmedString(Get(item, "title"))
         IN  IF title.t = "null" THEN <<>>
             ELSE <<JObj([
                 id |-> OrElse(asTrimmedString(Get(item, "id")),
                               asFallbackId(PrefixTask, index, title)),
                 title |-> title,
                 done |-> JBool(Truthy(Get(item, "done"))),
                 priority |-> IF Get(item, "priority").t = "str"
                                  /\ Get(item, "priority").s \in validPriorities
                              THEN Get(item, "priority") ELSE JStr(Medium),
                 createdAt |-> asIsoString(Get(item, "createdAt"), JStr(IsoOf(clock)))])>>

DefaultMinutes == 25

normalizeFocus(item, index, clock) ==
    IF ~isRecord(item) THEN <<>>
    ELSE LET minutes == asNonNegativeInteger(Get(item, "minutes"), DefaultMinutes)
         IN  IF minutes <= 0 THEN <<>>
             ELSE <<JObj([
                 id |-> OrElse(asTrimmedString(Get(item, "id")),
                               asFallbackId(PrefixFocus, index, Get(item, "createdAt"))),
                 minutes |-> JNum(minutes),
                 createdAt |-> asIsoString(Get(item, "createdAt"), JStr(IsoOf(clock)))])>>

normalizeJournal(item, index, clock) ==
    IF ~isRecord(item) THEN <<>>
    ELSE LET text == asTrimmedString(Get(item, "text"))
         IN  IF text.t = "null" THEN <<>>
             ELSE <<JObj([
                 id |-> OrElse(asTrimmedString(Get(item, "id")),
                               asFallbackId(PrefixJournal, index, text)),
                 text |-> text,
                 createdAt |-> asIsoString(Get(item, "createdAt"), JStr(IsoOf(clock)))])>>

normalizeEvent(item, index, clock) ==
    IF ~isRecord(item) THEN <<>>
    ELSE LET title == asTrimmedString(Get(item, "title"))
         IN  IF title.t = "null" THEN <<>>
             ELSE <<JObj([
                 id |-> OrElse(asTrimmedString(Get(item, "id")),
                               asFallbackId(PrefixEvent, index, title)),
                 title |-> title,
                 when |-> asIsoString(Get(item, "when"), JStr(IsoOf(clock))),
                 createdAt |-> asIsoString(Get(item, "createdAt"), JStr(IsoOf(clock)))])>>

normalizeLaunchpadItem(item, index, clock) ==
    IF ~isRecord(item) THEN <<>>
    ELSE LET name == asTrimmedString(Get(item, "name"))
             url == normalizeLaunchpadUrl(Get(item, "url"))
             createdAt == asIsoString(Get(item, "createdAt"), JStr(IsoOf(clock)))
         IN  IF name.t = "null" \/ url.t = "null" THEN <<>>
             ELSE <<JObj([
                 id |-> OrElse(asTrimmedString(Get(item, "id")),
                               asFallbackId(PrefixLaunchpad, index,
                                            JStr(name.s \o <<"-">> \o url.s))),
                 name |-> name,
                 url |-> url,
                 description |-> IF Get(item, "description").t = "str"
                                 THEN JStr(Trim(Get(item, "description").s)) ELSE JStr(<<>>),
                 enabled |-> IF Get(item, "enabled").t = "bool"
                             THEN Get(item, "enabled") ELSE JBool(TRUE),
                 launchCount |-> JNum(asNonNegativeInteger(Get(item, "launchCount"), 0)),
                 lastLaunchedAt |-> asOptionalIsoString(Get(item, "lastLaunchedAt")),
                 createdAt |-> createdAt,
                 updatedAt |-> asIsoString(Get(item, "updatedAt"), createdAt)])>>

(* The callback of the flatMap of one collection. *)
normalizeItem(collection, item, index, clock) ==
    CASE collection = "tasks" -> normalizeTask(item, index, clock)
      [] collection = "focusSessions" -> normalizeFocus(item, index, clock)
      [] collection = "journals" -> normalizeJournal(item, index, clock)
      [] collection = "events" -> normalizeEvent(item, index, clock)
      [] collection = "launchpad" -> normalizeLaunchpadItem(item, index, clock)

RECURSIVE FlatMap(_, _, _, _)
(* items.flatMap((item, index) => ...), the index counted from 0; i is the
   1-based position the recursion has reached. *)
FlatMap(collection, items, i, clock) ==
    IF i > Len(items) THEN <<>>
    ELSE normalizeItem(collection, items[i], i - 1, clock)
             \o FlatMap(collection, items, i + 1, clock)

(* A collection that is passed through when it is not an array. *)
CollectionUnguarded(candidate, collection, clock) ==
    IF IsArray(Get(candidate, collection))
    THEN JArr(FlatMap(collection, Get(candidate, collection).a, 1, clock))
    ELSE Get(candidate, collection)

(* Array.isArray(candidate.x) ? candidate.x.flatMap(...) : [] *)
Collection(candidate, collection, clock) ==
    IF IsArray(Get(candidate, collection))
    THEN JArr(FlatMap(collection, Get(candidate, collection).a, 1, clock))
    ELSE JArr(<<>>)

normalizeData(raw, clock) ==
    LET candidate == IF isRecord(raw) THEN raw ELSE JObj([tasks |-> JUndef])
    IN  JObj([
            tasks |-> Collection(candidate, "tasks", clock),
            focusSessions |-> Collection(candidate, "focusSessions", clock),
            journals |-> Collection(candidate, "journals", clock),
            events |-> Collection(candidate, "events", clock),
            launchpad |-> Collection(candidate, "launchpad", clock)])

createDefaultData ==
    JObj([tasks |-> JArr(<<>>), focusSessions |-> JArr(<<>>), journals |-> JArr(<<>>),
          events |-> JArr(<<>>), launchpad |-> JArr(<<>>)])

-----------------------------------------------------------------------------
(* The files of data/ *)

Absent == [k |-> "absent"]        \* no such file (ENOENT)
Bad == [k |-> "bad"]              \* a file that is not JSON (hand-edited, corrupted)
NoPerm == [k |-> "noperm"]        \* a file that cannot be opened (EACCES)
Empty == [k |-> "empty"]          \* a file just created or truncated by an open for writing
Torn == [k |-> "torn"]            \* a file holding parts of two payloads
Text(v) == [k |-> "text", v |-> v]   \* JSON.stringify(v, null, 2)

dataFile == "data"
backupFile == "backup"
tempFile == "temp"

Paths == {dataFile, backupFile, tempFile}

(* JSON.parse(raw) succeeds exactly on the text of a JSON value. *)
Parses(content) == content.k = "text"

Count(v) == IF IsArray(v) THEN Len(v.a) ELSE 0

Entities(v) ==
    Count(Get(v, "tasks")) + Count(Get(v, "focusSessions")) + Count(Get(v, "journals"))
        + Count(Get(v, "events")) + Count(Get(v, "launchpad"))

(* A write of `new` at offset 0 through a descriptor whose file holds `old`:
   a file that is empty, or holds the same text, ends as `new`; otherwise the
   bytes of a shorter `new` leave the tail of `old` behind (a document with
   more entities is taken to be the longer text). *)
WriteOutcomes(old, new) ==
    IF old.k \in {"empty", "absent"} \/ old = new THEN {new}
    ELSE IF old.k = "text" /\ new.k = "text" /\ Entities(new.v) > Entities(old.v) THEN {new}
    ELSE IF old.k = "text" /\ new.k = "text" /\ Entities(new.v) < Entities(old.v) THEN {Torn}
    ELSE {new, Torn}

-----------------------------------------------------------------------------
(* Bounds of the model *)

NumCalls == 4       \* calls of the longest scenario
MaxCalls == 3       \* calls of the scenario of overlapping requests
MaxFaults == 1

Calls == 1..NumCalls

TaskId(c) == <<"t">> \o Decimal(c)

NewTask(c, clock) ==
    JObj([id |-> JStr(TaskId(c)), title |-> JStr(<<"a">>), done |-> JBool(FALSE),
          priority |-> JStr(<<"h", "i", "g", "h">>), createdAt |-> JStr(IsoOf(clock))])

OldDoc ==
    JObj([tasks |-> JArr(<<JObj([id |-> JStr(<<"x">>), title |-> JStr(<<"b">>),
                                  done |-> JBool(TRUE), priority |-> JStr(Medium),
                                  createdAt |-> JStr(IsoOf(0))])>>),
          focusSessions |-> JArr(<<>>), journals |-> JArr(<<>>),
          events |-> JArr(<<>>), launchpad |-> JArr(<<>>)])

(* A file edited by hand: valid JSON that is not in normal form. *)
EditedDoc ==
    JObj([tasks |-> JArr(<<JObj([title |-> JStr(<<" ", "c">>), done |-> JNum(1),
                                  createdAt |-> JStr(<<"D", "0">>)]),
                            JNull>>),
          journals |-> JNull])

TaskIds(doc) == {Get(doc, "tasks").a[i].f.id.s : i \in 1..Len(Get(doc, "tasks").a)}

IdleCall ==
    [kind |-> "none", pc |-> "idle", ctx |-> "none", run |-> "idle", pred |-> 0,
     draft |-> JNull, payload |-> JNull, snap |-> Absent, fd |-> "none",
     started |-> FALSE, threw |-> FALSE, solo |-> FALSE, at0 |-> <<Absent, Absent, Absent>>,
     req |-> JNull, result |-> JNull, value |-> JNull]

FilesAre(d, b) ==
    fs = [p \in Paths |-> IF p = dataFile THEN d ELSE IF p = backupFile THEN b ELSE Absent]

Fresh ==
    /\ calls = [c \in Calls |-> IdleCall]
    /\ writeQueue = 0
    /\ faults = MaxFaults
    /\ now = 0
    /\ epoch = 0

(* The data directory when the process starts: <<dashboard.json,
   dashboard.backup.json>>. *)
InitFiles ==
    {<<Absent, Absent>>, <<Bad, Text(OldDoc)>>, <<Text(OldDoc), Text(createDefaultData)>>}

Init == Fresh /\ \E f \in InitFiles : FilesAre(f[1], f[2])

-----------------------------------------------------------------------------
(* The callbacks handlers pass to updateData.  A callback takes the draft and
   gives the edited draft and the outcome it returns. *)

LAUNCHPAD_NAME_MAX == 80
LAUNCHPAD_DESCRIPTION_MAX == 280

Failure(status) == [ok |-> FALSE, status |-> status, item |-> JNull]

Success(item) == [ok |-> TRUE, status |-> 200, item |-> item]

BadRequest == [t |-> "response", status |-> 400]

(* makeId(): the time and a random suffix, here the number of the call. *)
makeId(c, clock) == JStr(Decimal(clock) \o <<"-">> \o Decimal(c))

Launchpad(data) == Get(data, "launchpad").a

WithLaunchpad(data, items) == JObj([data.f EXCEPT !.launchpad = JArr(items)])

(* The callback of the concurrent-append scenario: push one task. *)
appendTask(req, data, c, clock) ==
    LET tasks == Get(data, "tasks").a \o <<NewTask(c, clock)>>
    IN  [draft |-> JObj([data.f EXCEPT !.tasks = JArr(tasks)]), result |-> JNull]

(* A POST callback that inserts without looking for the url. *)
postMutateUnchecked(req, data, c, clock) ==
    LET item == JObj([id |-> makeId(c, clock), name |-> req.name, url |-> req.url,
                      description |-> req.description, enabled |-> JBool(TRUE),
                      launchCount |-> JNum(0), lastLaunchedAt |-> JNull,
                      createdAt |-> JStr(IsoOf(clock)), updatedAt |-> JStr(IsoOf(clock))])
    IN  [draft |-> WithLaunchpad(data, <<item>> \o Launchpad(data)), result |-> Success(item)]

(* POST /api/launchpad: the callback. *)
postMutate(req, data, c, clock) ==
    LET items == Launchpad(data)
        item == JObj([id |-> makeId(c, clock), name |-> req.name, url |-> req.url,
                      description |-> req.description, enabled |-> JBool(TRUE),
                      launchCount |-> JNum(0), lastLaunchedAt |-> JNull,
                      createdAt |-> JStr(IsoOf(clock)), updatedAt |-> JStr(IsoOf(clock))])
    IN  IF \E i \in 1..Len(items) : items[i].f.url = req.url
        THEN [draft |-> data, result |-> Failure(409)]
        ELSE [draft |-> WithLaunchpad(data, <<item>> \o items), result |-> Success(item)]

(* A PATCH callback that counts the launch before it looks at enabled. *)
patchMutateCountsFirst(req, data, c, clock) ==
    LET items == Launchpad(data)
        found == {i \in 1..Len(items) : items[i].f.id = req.id}
    IN  IF found = {} THEN [draft |-> data, result |-> Failure(404)]
        ELSE
        LET k == CHOOSE i \in found : \A j \in found : i <= j
            item0 == items[k].f
            rename == req.name.t # "null" /\ item0.name # req.name
            item1 == IF rename THEN [item0 EXCEPT !.name = req.name] ELSE item0
            reurl == req.url.t # "null" /\ item1.url # req.url
            duplicated == \E j \in 1..Len(items) :
                              items[j].f.id # req.id /\ items[j].f.url = req.url
            item2 == IF reurl THEN [item1 EXCEPT !.url = req.url] ELSE item1
            redescribe == req.description.t # "null" /\ item2.description # req.description
            item3 == IF redescribe THEN [item2 EXCEPT !.description = req.description] ELSE item2
            reenable == req.enabled.t = "bool" /\ item3.enabled # req.enabled
            item4 == IF reenable THEN [item3 EXCEPT !.enabled = req.enabled] ELSE item3
            launch == req.action.t = "str"
            item5 == IF launch
                     THEN [item4 EXCEPT !.launchCount = JNum(item4.launchCount.n + 1),
                                        !.lastLaunchedAt = JStr(IsoOf(clock))]
                     ELSE item4
            changed == rename \/ reurl \/ redescribe \/ reenable \/ launch
            item6 == IF changed THEN [item5 EXCEPT !.updatedAt = JStr(IsoOf(clock))] ELSE item5
            put(it) == WithLaunchpad(data, [items EXCEPT ![k] = JObj(it)])
        IN  IF reurl /\ duplicated THEN [draft |-> put(item1), result |-> Failure(409)]
            ELSE IF launch /\ ~item4.enabled.b THEN [draft |-> put(item5), result |-> Failure(400)]
            ELSE [draft |-> put(item6), result |-> Success(JObj(item6))]

(* PATCH /api/launchpad/[id]: the callback.  It edits the item in place, so
   the edits made before a failure is returned stay in the draft. *)
patchMutate(req, data, c, clock) ==
    LET items == Launchpad(data)
        found == {i \in 1..Len(items) : items[i].f.id = req.id}
    IN  IF found = {} THEN [draft |-> data, result |-> Failure(404)]
        ELSE
        LET k == CHOOSE i \in found : \A j \in found : i <= j
            item0 == items[k].f
            rename == req.name.t # "null" /\ item0.name # req.name
            item1 == IF rename THEN [item0 EXCEPT !.name = req.name] ELSE item0
            reurl == req.url.t # "null" /\ item1.url # req.url
            duplicated == \E j \in 1..Len(items) :
                              items[j].f.id # req.id /\ items[j].f.url = req.url
            item2 == IF reurl THEN [item1 EXCEPT !.url = req.url] ELSE item1
            redescribe == req.description.t # "null" /\ item2.description # req.description
            item3 == IF redescribe THEN [item2 EXCEPT !.description = req.description] ELSE item2
            reenable == req.enabled.t = "bool" /\ item3.enabled # req.enabled
            item4 == IF reenable THEN [item3 EXCEPT !.enabled = req.enabled] ELSE item3
            launch == req.action.t = "str"
            item5 == IF launch
                     THEN [item4 EXCEPT !.launchCount = JNum(item4.launchCount.n + 1),
                                        !.lastLaunchedAt = JStr(IsoOf(clock))]
                     ELSE item4
            changed == rename \/ reurl \/ redescribe \/ reenable \/ launch
            item6 == IF changed THEN [item5 EXCEPT !.updatedAt = JStr(IsoOf(clock))] ELSE item5
            put(it) == WithLaunchpad(data, [items EXCEPT ![k] = JObj(it)])
        IN  IF reurl /\ duplicated THEN [draft |-> put(item1), result |-> Failure(409)]
            ELSE IF launch /\ ~item4.enabled.b THEN [draft |-> put(item4), result |-> Failure(400)]
            ELSE [draft |-> put(item6), result |-> Success(JObj(item6))]

(* DELETE /api/launchpad/[id]: the callback. *)
deleteMutate(req, data, c, clock) ==
    LET items == Launchpad(data)
        kept == SelectSeq(items, LAMBDA it : it.f.id # req.id)
    IN  IF Len(kept) = Len(items)
        THEN [draft |-> WithLaunchpad(data, kept), result |-> Failure(404)]
        ELSE [draft |-> WithLaunchpad(data, kept), result |-> Success(JNull)]

(* mutate(draft) for the request req of call c. *)
mutate(req, data, c, clock) ==
    CASE req.t = "null" -> appendTask(req, data, c, clock)
      [] req.op = "post" -> postMutate(req, data, c, clock)
      [] req.op = "patch" -> patchMutate(req, data, c, clock)
      [] req.op = "delete" -> deleteMutate(req, data, c, clock)

(* POST /api/launchpad before updateData: the checks of the body. *)
PostRequest(body) ==
    LET name == IF Get(body, "name").t = "str" THEN Trim(Get(body, "name").s) ELSE <<>>
        url == normalizeLaunchpadUrl(Get(body, "url"))
        description == Get(body, "description")
    IN  IF body.t # "obj" THEN BadRequest
        ELSE IF name = <<>> \/ Len(name) > LAUNCHPAD_NAME_MAX THEN BadRequest
        ELSE IF url.t = "null" THEN BadRequest
        ELSE IF description.t \notin {"undef", "str"} THEN BadRequest
        ELSE IF description.t = "str" /\ Len(Trim(description.s)) > LAUNCHPAD_DESCRIPTION_MAX
             THEN BadRequest
        ELSE [t |-> "request", op |-> "post", name |-> JStr(name), url |-> url,
              description |-> JStr(IF description.t = "str" THEN Trim(description.s) ELSE <<>>)]

Launch == <<"l", "a", "u", "n", "c", "h">>

(* PATCH /api/launchpad/[id] before updateData: the checks of the body. *)
PatchRequest(id, body) ==
    LET name == Get(body, "name")
        url == Get(body, "url")
        description == Get(body, "description")
        enabled == Get(body, "enabled")
        action == Get(body, "action")
        hasKnownField == \E v \in {name, url, description, enabled, action} : v.t # "undef"
    IN  IF body.t # "obj" THEN BadRequest
        ELSE IF ~hasKnownField THEN BadRequest
        ELSE IF enabled.t \notin {"undef", "bool"} THEN BadRequest
        ELSE IF action.t # "undef" /\ action # JStr(Launch) THEN BadRequest
        ELSE IF name.t \notin {"undef", "str"} THEN BadRequest
        ELSE IF name.t = "str" /\ (Trim(name.s) = <<>> \/ Len(Trim(name.s)) > LAUNCHPAD_NAME_MAX)
             THEN BadRequest
        ELSE IF url.t # "undef" /\ normalizeLaunchpadUrl(url).t = "null" THEN BadRequest
        ELSE IF description.t \notin {"undef", "str"} THEN BadRequest
        ELSE IF description.t = "str" /\ Len(Trim(description.s)) > LAUNCHPAD_DESCRIPTION_MAX
             THEN BadRequest
        ELSE [t |-> "request", op |-> "patch", id |-> JStr(id),
              name |-> IF name.t = "str" THEN JStr(Trim(name.s)) ELSE JNull,
              url |-> IF url.t # "undef" THEN normalizeLaunchpadUrl(url) ELSE JNull,
              description |-> IF description.t = "str" THEN JStr(Trim(description.s)) ELSE JNull,
              enabled |-> enabled,
              action |-> action]

DeleteRequest(id) == [t |-> "request", op |-> "delete", id |-> JStr(id)]

-----------------------------------------------------------------------------
(* The promise chain of enqueueWrite *)

Queued(c) == calls[c].kind \in {"write", "update"}

Settled(r) == r \in {"fulfilled", "rejected"}

(* A chain that starts every job at once: const run = job(). *)
enqueueWriteNoChain(r) == "job"

(* A chain without rejection handlers: writeQueue = writeQueue.then(job). *)
enqueueWriteNaive(r) ==
    CASE r = "pending" -> "wait"
      [] r = "fulfilled" -> "job"
      [] r = "rejected" -> "reject"

(* What the job chained on a run promise in state r does: line 245-248 turn
   every settlement of run into a fulfilled writeQueue, and line 244 passes
   the job as both handlers of writeQueue.then. *)
enqueueWriteChain(r) ==
    LET queue == IF r = "pending" THEN "pending" ELSE "fulfilled"
    IN  CASE queue = "pending" -> "wait"
          [] queue = "fulfilled" -> "job"
          [] queue = "rejected" -> "job"

PredRun(c) == IF calls[c].pred = 0 THEN "fulfilled" ELSE calls[calls[c].pred].run

-----------------------------------------------------------------------------
(* Steps of the calls *)

InProgress(c) == calls[c].run = "pending" /\ calls[c].pc # "dead"

Set(c, r) == calls' = [calls EXCEPT ![c] = r]

(* The caller's promise settles. *)
Resolved(r) == [r EXCEPT !.pc = "done", !.run = "fulfilled", !.fd = "none"]

Rejected(r) == [r EXCEPT !.pc = "done", !.run = "rejected", !.fd = "none", !.threw = TRUE]

Reject(c, r) == Set(c, Rejected(r))

(* readData returns r.draft: to the caller of a plain read, to the job of updateData. *)
ReadReturned(r) ==
    IF r.kind = "read" THEN Resolved(r) ELSE [r EXCEPT !.pc = "mutate", !.fd = "none"]

ReadReturns(c, r) == Set(c, ReadReturned(r))

(* writeDataToDisk(payload) begins. *)
EnterWrite(r, ctx, payload) ==
    [r EXCEPT !.pc = "wd_mkdir", !.ctx = ctx, !.payload = payload, !.fd = "none"]

(* An updateData that resolves with nothing. *)
updateDataReturnsVoid(r) == JNull

(* updateData: return result *)
updateDataReturn(r) == r.result

(* writeDataToDisk returned: to readData, or to the job of writeData or updateData. *)
WriteReturned(r) ==
    IF r.ctx \in {"recover", "fallback"} THEN ReadReturned(r)
    ELSE IF r.ctx = "persist" THEN Resolved([r EXCEPT !.value = updateDataReturn(r)])
    ELSE Resolved(r)

(* writeDataToDisk threw: the inner catch of readData turns a failed write of
   the recovered document into the fallback; every other write rejects. *)
WriteThrows(c, r) ==
    IF r.ctx = "recover"
    THEN Set(c, EnterWrite([r EXCEPT !.draft = createDefaultData], "fallback", createDefaultData))
    ELSE Reject(c, r)

UseFault == faults > 0 /\ faults' = faults - 1

NoFault == UNCHANGED faults

(* A call is made.  Calls are numbered in the order they are made. *)
Issue(c, kind, next) ==
    /\ calls[c].kind = "none"
    /\ IF c = 1 THEN TRUE ELSE calls[c - 1].kind # "none"
    /\ LET alone == \A d \in Calls : ~InProgress(d)
           base == [IdleCall EXCEPT !.kind = kind, !.run = "pending", !.solo = alone,
                                    !.at0 = IF alone
                                            THEN <<fs[dataFile], fs[backupFile], fs[tempFile]>>
                                            ELSE IdleCall.at0]
           mine == CASE kind = "read" -> [base EXCEPT !.pc = "rd_mkdir", !.started = TRUE]
                     [] kind = "update" -> [base EXCEPT !.pc = "enq", !.pred = writeQueue, !.req = next]
                     [] kind = "write" ->
                            [base EXCEPT !.pc = "enq", !.pred = writeQueue, !.ctx = "write",
                                         !.payload = normalizeData(next, now)]
       IN  calls' = [d \in Calls |->
                        IF d = c THEN mine
                        ELSE IF InProgress(d) THEN [calls[d] EXCEPT !.solo = FALSE]
                        ELSE calls[d]]
    /\ writeQueue' = IF kind = "read" THEN writeQueue ELSE c
    /\ now' = now + 1
    /\ UNCHANGED <<fs, faults, epoch>>

(* run = writeQueue.then(job, job): the job of a queued call starts. *)
JobStart(c) ==
    /\ Queued(c) /\ calls[c].pc = "enq"
    /\ enqueueWriteChain(PredRun(c)) # "wait"
    /\ IF enqueueWriteChain(PredRun(c)) = "job"
       THEN Set(c, IF calls[c].kind = "update"
                   THEN [calls[c] EXCEPT !.pc = "rd_mkdir", !.started = TRUE]
                   ELSE [EnterWrite(calls[c], "write", calls[c].payload) EXCEPT !.started = TRUE])
       ELSE Set(c, [calls[c] EXCEPT !.pc = "done", !.run = "rejected"])
    /\ UNCHANGED <<fs, writeQueue, faults, now, epoch>>

(* readData: await fs.mkdir(dataDir, { recursive: true }) *)
ReadMkdir(c) ==
    /\ calls[c].pc = "rd_mkdir"
    /\ \/ NoFault /\ Set(c, [calls[c] EXCEPT !.pc = "rd_primary"])
       \/ UseFault /\ Reject(c, calls[c])
    /\ UNCHANGED <<fs, writeQueue, now, epoch>>

(* A loader that prefers a staging file left behind to the primary file. *)
readAndNormalizeStaged(filePath) ==
    LET path == IF filePath = dataFile /\ fs[tempFile] # Absent THEN tempFile ELSE filePath
    IN  IF Parses(fs[path])
        THEN [ok |-> TRUE, doc |-> normalizeData(fs[path].v, now)]
        ELSE [ok |-> FALSE, doc |-> JNull]

(* readAndNormalize(filePath) without an I/O failure: it throws (ok is
   FALSE) when the file is missing, cannot be opened or is not JSON. *)
readAndNormalize(filePath) ==
    IF Parses(fs[filePath])
    THEN [ok |-> TRUE, doc |-> normalizeData(fs[filePath].v, now)]
    ELSE [ok |-> FALSE, doc |-> JNull]

(* readData: return await readAndNormalize(dataFile), or the catch *)
ReadPrimary(c) ==
    /\ calls[c].pc = "rd_primary"
    /\ \/ /\ readAndNormalize(dataFile).ok /\ NoFault
          /\ ReadReturns(c, [calls[c] EXCEPT !.draft = readAndNormalize(dataFile).doc])
       \/ /\ ~readAndNormalize(dataFile).ok /\ NoFault
          /\ Set(c, [calls[c] EXCEPT !.pc = "rd_backup"])
       \/ /\ UseFault
          /\ Set(c, [calls[c] EXCEPT !.pc = "rd_backup"])
    /\ UNCHANGED <<fs, writeQueue, now, epoch>>

(* A recovery that returns the backup's document without writing it back. *)
ReadBackupNoHeal(c) ==
    /\ calls[c].pc = "rd_backup"
    /\ \/ /\ readAndNormalize(backupFile).ok /\ NoFault
          /\ ReadReturns(c, [calls[c] EXCEPT !.draft = readAndNormalize(backupFile).doc])
       \/ /\ ~readAndNormalize(backupFile).ok /\ NoFault
          /\ Set(c, EnterWrite([calls[c] EXCEPT !.draft = createDefaultData],
                               "fallback", createDefaultData))
       \/ /\ UseFault
          /\ Set(c, EnterWrite([calls[c] EXCEPT !.draft = createDefaultData],
                               "fallback", createDefaultData))
    /\ UNCHANGED <<fs, writeQueue, now, epoch>>

(* readData: recovered = await readAndNormalize(backupFile), or the inner catch *)
ReadBackup(c) ==
    /\ calls[c].pc = "rd_backup"
    /\ \/ /\ readAndNormalize(backupFile).ok /\ NoFault
          /\ LET recovered == readAndNormalize(backupFile).doc
             IN  Set(c, EnterWrite([calls[c] EXCEPT !.draft = recovered], "recover", recovered))
       \/ /\ ~readAndNormalize(backupFile).ok /\ NoFault
          /\ Set(c, EnterWrite([calls[c] EXCEPT !.draft = createDefaultData],
                               "fallback", createDefaultData))
       \/ /\ UseFault
          /\ Set(c, EnterWrite([calls[c] EXCEPT !.draft = createDefaultData],
                               "fallback", createDefaultData))
    /\ UNCHANGED <<fs, writeQueue, now, epoch>>

(* An updateData that catches what the callback throws and writes the draft
   all the same. *)
MutatePersistsOnThrow(c) ==
    /\ calls[c].pc = "mutate"
    /\ \/ /\ NoFault
          /\ LET m == mutate(calls[c].req, calls[c].draft, c, now)
             IN  Set(c, EnterWrite([calls[c] EXCEPT !.result = m.result],
                                   "persist", normalizeData(m.draft, now)))
       \/ /\ UseFault
          /\ Set(c, EnterWrite(calls[c], "persist", normalizeData(calls[c].draft, now)))
    /\ UNCHANGED <<fs, writeQueue, now, epoch>>

(* updateData: result = await mutate(draft); await writeDataToDisk(normalizeData(draft)).
   The callback is the one of the request; it may also throw. *)
Mutate(c) ==
    /\ calls[c].pc = "mutate"
    /\ \/ /\ NoFault
          /\ LET m == mutate(calls[c].req, calls[c].draft, c, now)
             IN  Set(c, EnterWrite([calls[c] EXCEPT !.result = m.result],
                                   "persist", normalizeData(m.draft, now)))
       \/ UseFault /\ Reject(c, calls[c])
    /\ UNCHANGED <<fs, writeQueue, now, epoch>>

(* writeDataToDisk: await fs.mkdir(dataDir, { recursive: true }) *)
WriteMkdir(c) ==
    /\ calls[c].pc = "wd_mkdir"
    /\ \/ NoFault /\ Set(c, [calls[c] EXCEPT !.pc = "wd_copy"])
       \/ UseFault /\ WriteThrows(c, calls[c])
    /\ UNCHANGED <<fs, writeQueue, now, epoch>>

(* writeDataToDisk: fs.copyFile(dataFile, backupFile) opens both files and
   truncates the destination; ENOENT is swallowed, any other error thrown. *)
CopyBegin(c) ==
    /\ calls[c].pc = "wd_copy"
    /\ \/ /\ fs[dataFile] = Absent /\ NoFault
          /\ Set(c, [calls[c] EXCEPT !.pc = "wd_open"])
          /\ UNCHANGED fs
       \/ /\ fs[dataFile] # Absent /\ NoPerm \in {fs[dataFile], fs[backupFile]} /\ NoFault
          /\ WriteThrows(c, calls[c])
          /\ UNCHANGED fs
       \/ /\ fs[dataFile] # Absent /\ NoPerm \notin {fs[dataFile], fs[backupFile]} /\ NoFault
          /\ Set(c, [calls[c] EXCEPT !.pc = "wd_copy2", !.snap = fs[dataFile]])
          /\ fs' = [fs EXCEPT ![backupFile] = Empty]
       \/ /\ UseFault
          /\ WriteThrows(c, calls[c])
          /\ UNCHANGED fs
    /\ UNCHANGED <<writeQueue, now, epoch>>

(* fs.copyFile: the bytes of the source arrive in the destination. *)
CopyEnd(c) ==
    /\ calls[c].pc = "wd_copy2"
    /\ \E out \in WriteOutcomes(fs[backupFile], calls[c].snap) :
           fs' = [fs EXCEPT ![backupFile] = out]
    /\ Set(c, [calls[c] EXCEPT !.pc = "wd_open", !.snap = Absent])
    /\ UNCHANGED <<writeQueue, faults, now, epoch>>

(* writeDataToDisk: fs.writeFile(tempFile, ...) opens the file with flag "w". *)
TempOpen(c) ==
    /\ calls[c].pc = "wd_open"
    /\ \/ /\ NoFault
          /\ fs' = [fs EXCEPT ![tempFile] = Empty]
          /\ Set(c, [calls[c] EXCEPT !.pc = "wd_write", !.fd = tempFile])
       \/ /\ UseFault
          /\ WriteThrows(c, calls[c])
          /\ UNCHANGED fs
    /\ UNCHANGED <<writeQueue, now, epoch>>

(* fs.writeFile: the payload is written through the open descriptor, which
   names the file wherever a rename has moved it since. *)
TempWrite(c) ==
    /\ calls[c].pc = "wd_write"
    /\ \/ /\ NoFault
          /\ IF calls[c].fd \in Paths
             THEN \E out \in WriteOutcomes(fs[calls[c].fd], Text(calls[c].payload)) :
                      fs' = [fs EXCEPT ![calls[c].fd] = out]
             ELSE UNCHANGED fs
          /\ Set(c, [calls[c] EXCEPT !.pc = "wd_rename", !.fd = "none"])
       \/ /\ UseFault
          /\ WriteThrows(c, calls[c])
          /\ UNCHANGED fs
    /\ UNCHANGED <<writeQueue, now, epoch>>

(* The descriptors open on the files a rename moves or replaces. *)
AfterRename(r) ==
    IF r.fd = tempFile THEN [r EXCEPT !.fd = dataFile]
    ELSE IF r.fd = dataFile THEN [r EXCEPT !.fd = "gone"]
    ELSE r

(* writeDataToDisk: await fs.rename(tempFile, dataFile) *)
Rename(c) ==
    /\ calls[c].pc = "wd_rename"
    /\ \/ /\ fs[tempFile] # Absent /\ NoFault
          /\ fs' = [fs EXCEPT ![dataFile] = fs[tempFile], ![tempFile] = Absent]
          /\ calls' = [d \in Calls |->
                          IF d = c THEN WriteReturned(calls[c]) ELSE AfterRename(calls[d])]
       \/ /\ fs[tempFile] = Absent /\ NoFault
          /\ WriteThrows(c, calls[c])
          /\ UNCHANGED fs
       \/ /\ UseFault
          /\ WriteThrows(c, calls[c])
          /\ UNCHANGED fs
    /\ UNCHANGED <<writeQueue, now, epoch>>

(* The process dies and is started again: every call in progress is gone,
   the files stay as they are, the new process has a fresh writeQueue. *)
Crash ==
    /\ epoch = 0
    /\ \E c \in Calls : InProgress(c)
    /\ epoch' = 1
    /\ calls' = [c \in Calls |->
                    IF InProgress(c) THEN [calls[c] EXCEPT !.pc = "dead", !.fd = "none"]
                    ELSE calls[c]]
    /\ writeQueue' = 0
    /\ UNCHANGED <<fs, faults, now>>

(* The documents handlers pass to writeData. *)
WriteInputs == {OldDoc, EditedDoc}

(* One step of a call that has been made. *)
Step(c) ==
    \/ JobStart(c)
    \/ ReadMkdir(c)
    \/ ReadPrimary(c)
    \/ ReadBackup(c)
    \/ Mutate(c)
    \/ WriteMkdir(c)
    \/ CopyBegin(c)
    \/ CopyEnd(c)
    \/ TempOpen(c)
    \/ TempWrite(c)
    \/ Rename(c)

(* One process serving overlapping requests. *)
Next ==
    \/ \E c \in 1..MaxCalls : Issue(c, "read", JNull)
    \/ \E c \in 1..MaxCalls : Issue(c, "update", JNull)
    \/ \E c \in 1..MaxCalls, next \in WriteInputs : Issue(c, "write", next)
    \/ \E c \in Calls : Step(c)

Spec == Init /\ [][Next]_vars

-----------------------------------------------------------------------------
(* Loads, recovery and restarts: fewer calls, every kind of file at start,
   and a process that may die and be started again. *)

LoadCalls == 2

InitLoadData == {Absent, Bad, NoPerm, Text(createDefaultData), Text(OldDoc), Text(EditedDoc)}

InitLoadBackup == {Absent, Bad, NoPerm, Text(OldDoc), Text(EditedDoc)}

InitLoad == Fresh /\ \E d \in InitLoadData, b \in InitLoadBackup : FilesAre(d, b)

NextLoad ==
    \/ \E c \in 1..LoadCalls : Issue(c, "read", JNull)
    \/ \E c \in 1..LoadCalls : Issue(c, "update", JNull)
    \/ \E c \in 1..LoadCalls, next \in WriteInputs : Issue(c, "write", next)
    \/ \E c \in Calls : Step(c)
    \/ Crash

SpecLoad == InitLoad /\ [][NextLoad]_vars

-----------------------------------------------------------------------------
(* Concurrent transactions on an empty document: every call but the last is
   an updateData, made at any moment; the last is a readData made once the
   others have settled.  No I/O failure is injected. *)

InitUpdates ==
    /\ calls = [c \in Calls |-> IdleCall]
    /\ writeQueue = 0
    /\ faults = 0
    /\ now = 0
    /\ epoch = 0
    /\ \E f \in {<<Absent, Absent>>, <<Text(createDefaultData), Absent>>} : FilesAre(f[1], f[2])

NextUpdates ==
    \/ \E c \in 1..(NumCalls - 1) : Issue(c, "update", JNull)
    \/ /\ \A d \in 1..(NumCalls - 1) : Settled(calls[d].run)
       /\ Issue(NumCalls, "read", JNull)
    \/ \E c \in Calls : Step(c)

SpecUpdates == InitUpdates /\ [][NextUpdates]_vars

-----------------------------------------------------------------------------
(* Launchpad requests: POST, PATCH and DELETE handlers, each one updateData
   transaction, overlapping in any way. *)

LaunchCalls == 2

UrlA == <<"h", "a", "/">>
UrlB == <<"h", "b", "/">>

Item(id, url, enabled) ==
    JObj([id |-> JStr(id), name |-> JStr(<<"n">>), url |-> JStr(url),
          description |-> JStr(<<>>), enabled |-> JBool(enabled),
          launchCount |-> JNum(0), lastLaunchedAt |-> JNull,
          createdAt |-> JStr(IsoOf(0)), updatedAt |-> JStr(IsoOf(0))])

(* A document the store wrote: two shortcuts. *)
LaunchDoc ==
    JObj([createDefaultData.f EXCEPT
             !.launchpad = JArr(<<Item(<<"a">>, UrlA, TRUE), Item(<<"b">>, UrlB, FALSE)>>)])

(* A document edited by hand: two shortcuts, different urls, the same id. *)
TwinDoc ==
    JObj([createDefaultData.f EXCEPT
             !.launchpad = JArr(<<Item(<<"a">>, UrlA, TRUE), Item(<<"a">>, UrlB, TRUE)>>)])

PostBodies ==
    {JObj([name |-> JStr(<<"n">>), url |-> JStr(<<"H", "a">>)]),
     JObj([name |-> JStr(<<" ", "m">>), url |-> JStr(<<"h", "c">>),
           description |-> JStr(<<"d", " ">>)]),
     JObj([name |-> JStr(<<"n">>), url |-> JStr(<<"f", "a">>)])}

PatchBodies ==
    {JObj([url |-> JStr(<<"h", "b">>)]),
     JObj([name |-> JStr(<<"m">>), url |-> JStr(<<"H", "b", "/">>)]),
     JObj([action |-> JStr(Launch)]),
     JObj([enabled |-> JBool(FALSE)]),
     JObj([description |-> JNum(1)])}

ItemIds == {<<"a">>, <<"b">>}

POST(c, body) ==
    /\ PostRequest(body).t = "request"
    /\ Issue(c, "update", PostRequest(body))

PATCH(c, id, body) ==
    /\ PatchRequest(id, body).t = "request"
    /\ Issue(c, "update", PatchRequest(id, body))

DELETE(c, id) == Issue(c, "update", DeleteRequest(id))

InitLaunchpad == Fresh /\ \E doc \in {LaunchDoc, TwinDoc} : FilesAre(Text(doc), Absent)

NextLaunchpad ==
    \/ \E c \in 1..LaunchCalls, body \in PostBodies : POST(c, body)
    \/ \E c \in 1..LaunchCalls, id \in ItemIds, body \in PatchBodies : PATCH(c, id, body)
    \/ \E c \in 1..LaunchCalls, id \in ItemIds : DELETE(c, id)
    \/ \E c \in Calls : Step(c)

SpecLaunchpad == InitLaunchpad /\ [][NextLaunchpad]_vars

-----------------------------------------------------------------------------
(* The task handlers: POST /api/tasks loads with readData, edits the document
   it got, and saves it with writeData. *)

HandlerCalls == 2

WithTasks(data, tasks) == JObj([data.f EXCEPT !.tasks = JArr(tasks)])

(* The handler that began with readData call r has called writeData. *)
Saved(r) ==
    \E w \in Calls : calls[w].kind = "write" /\ TaskId(r) \in TaskIds(calls[w].payload)

(* const data = await readData() *)
TasksPostLoad(c) ==
    /\ Cardinality({r \in Calls : calls[r].kind = "read"}) < HandlerCalls
    /\ Issue(c, "read", JNull)

(* data.tasks.unshift(task); await writeData(data) *)
TasksPostSave(r, c) ==
    /\ calls[r].kind = "read" /\ calls[r].run = "fulfilled"
    /\ ~Saved(r)
    /\ Issue(c, "write",
             WithTasks(calls[r].draft, <<NewTask(r, now)>> \o Get(calls[r].draft, "tasks").a))

(* A transaction of another handler running next to them. *)
OtherUpdate(c) ==
    /\ \A d \in Calls : calls[d].kind # "update"
    /\ Issue(c, "update", JNull)

NextHandlers ==
    \/ \E c \in Calls : TasksPostLoad(c)
    \/ \E c \in Calls : OtherUpdate(c)
    \/ \E r, c \in Calls : TasksPostSave(r, c)
    \/ \E c \in Calls : Step(c)

SpecHandlers == InitUpdates /\ [][NextHandlers]_vars

-----------------------------------------------------------------------------
(* The normalizer on untrusted input: dashboard.json holds any JSON value of
   a bounded family, and the calls of the store load and normalize it. *)

MaxItems == 2
NormalizeCalls == 1

(* Elements a stored collection may hold.  One element is read as a task, a
   focus session, a journal, an event and a shortcut, so it carries the
   fields of all of them. *)
RawItems ==
    {JNull,
     JArr(<<>>),
     JObj([id |-> JStr(<<"x">>), title |-> JStr(<<"a">>), text |-> JStr(<<"a">>),
           name |-> JStr(<<"n">>), url |-> JStr(<<"h", "a", "/">>), minutes |-> JNum(5),
           done |-> JBool(TRUE), enabled |-> JBool(FALSE), launchCount |-> JNum(2),
           createdAt |-> JStr(<<"T", "0">>), when |-> JStr(<<"T", "1">>),
           updatedAt |-> JStr(<<"T", "2">>)]),
     JObj([id |-> JStr(<<" ", "x">>), title |-> JStr(<<"b">>), text |-> JStr(<<"b">>),
           name |-> JStr(<<"m">>), url |-> JStr(<<"h", "b">>), minutes |-> JStr(<<"7">>),
           done |-> JNum(0), enabled |-> JNum(0), priority |-> JStr(<<"l", "o", "w">>),
           createdAt |-> JStr(<<"z">>)]),
     JObj([title |-> JStr(<<" ", "c">>), text |-> JStr(<<"c", " ">>),
           name |-> JStr(<<"n">>), url |-> JStr(<<"H", "c">>),
           minutes |-> [t |-> "num", n |-> 2, half |-> TRUE],
           done |-> JStr(<<"x">>), enabled |-> JNull, launchCount |-> JNum(0 - 1),
           lastLaunchedAt |-> JStr(<<"D", "3">>), createdAt |-> JStr(<<"D", "1">>),
           description |-> JStr(<<" ", "d">>), priority |-> JNum(1)]),
     JObj([id |-> JNum(7), title |-> JStr(<<"a">>), text |-> JNum(1),
           name |-> JStr(<<" ">>), url |-> JStr(<<"f", "a">>), minutes |-> JNum(0),
           done |-> JStr(<<>>), enabled |-> JBool(TRUE)]),
     JObj([id |-> JStr(<<" ">>), title |-> JStr(<<"a">>), text |-> JStr(<<"a">>),
           name |-> JStr(<<"n">>), url |-> JStr(<<"h", "a">>), minutes |-> JBool(TRUE),
           done |-> JArr(<<>>), enabled |-> JStr(<<"x">>)])}

Collections == {"tasks", "focusSessions", "journals", "events", "launchpad"}

RawDoc(items) ==
    JObj([tasks |-> JArr(items), focusSessions |-> JArr(items), journals |-> JArr(items),
          events |-> JArr(items), launchpad |-> JArr(items)])

(* The JSON values dashboard.json may hold. *)
RawDocs ==
    {JNull, JNum(3), JStr(<<"x">>), JArr(<<JNull>>),
     JObj([tasks |-> JStr(<<"x">>), journals |-> JObj([a |-> JNull]), launchpad |-> JNull])}
        \cup {RawDoc(items) : items \in UNION {[1..n -> RawItems] : n \in 0..MaxItems}}

InitNormalize == Fresh /\ \E raw \in RawDocs : FilesAre(Text(raw), Absent)

NextNormalize ==
    \/ \E c \in 1..NormalizeCalls : Issue(c, "read", JNull)
    \/ \E c \in 1..NormalizeCalls : Issue(c, "update", JNull)
    \/ \E c \in 1..NormalizeCalls, next \in WriteInputs : Issue(c, "write", next)
    \/ \E c \in Calls : Step(c)

SpecNormalize == InitNormalize /\ [][NextNormalize]_vars

-----------------------------------------------------------------------------
(* The queue alone: writeData and updateData calls made at any moment, with
   I/O failures; every step of a call that can be taken is taken in the end
   (file-system calls complete, the runtime runs every settled promise's
   handlers). *)

QueueCalls == 3

InitQueue ==
    Fresh /\ \E f \in {<<Absent, Absent>>, <<Text(OldDoc), Absent>>} : FilesAre(f[1], f[2])

NextQueue ==
    \/ \E c \in 1..QueueCalls : Issue(c, "update", JNull)
    \/ \E c \in 1..QueueCalls : Issue(c, "write", OldDoc)
    \/ \E c \in Calls : Step(c)

SpecQueue == InitQueue /\ [][NextQueue]_vars /\ \A c \in Calls : WF_vars(Step(c))

-----------------------------------------------------------------------------
(* Launchpad urls: stored documents whose shortcuts have urls of every kind,
   and POST and PATCH requests with such urls. *)

MaxUrlItems == 1
UrlCalls == 2

RawUrls ==
    {JStr(<<"h", "a", "/">>), JStr(<<" ", "H", "c">>), JStr(<<"f", "a">>),
     JStr(<<"x", "a">>), JStr(<<"h">>), JStr(<<" ">>), JNum(1)}

UrlDocs ==
    {JObj([launchpad |-> JArr(items)]) :
        items \in UNION {[1..n -> {JObj([id |-> JStr(<<"a">>), name |-> JStr(<<"n">>),
                                          url |-> url]) : url \in RawUrls}] :
                             n \in 0..MaxUrlItems}}

UrlBodies == {JObj([name |-> JStr(<<"m">>), url |-> url]) : url \in RawUrls}

InitUrls == Fresh /\ \E raw \in UrlDocs : FilesAre(Text(raw), Absent)

NextUrls ==
    \/ \E c \in 1..UrlCalls : Issue(c, "read", JNull)
    \/ \E c \in 1..UrlCalls, body \in UrlBodies : POST(c, body)
    \/ \E c \in 1..UrlCalls, body \in UrlBodies : PATCH(c, <<"a">>, body)
    \/ \E c \in Calls : Step(c)

SpecUrls == InitUrls /\ [][NextUrls]_vars

-----------------------------------------------------------------------------
(* Monthly goals (src/lib/monthlyGoals.ts): the page keeps them in the
   browser's localStorage and normalizes what it finds there when it loads.
   In this part fs has the single key "monthlyGoals", and a call is one load
   of the page.  An object whose keys matter is a sequence of entries
   [k |-> key, v |-> value] in insertion order: [t |-> "map", e |-> <<...>>]. *)

MaxGoals == 2
PageLoads == 2

JMap(e) == [t |-> "map", e |-> e]

goalsKey == "monthlyGoals"

(* A pattern without the range of the month: /^\d{4}-\d{2}$/ *)
MonthKeyAnyTwoDigits(monthKey) ==
    /\ Len(monthKey) = 7
    /\ \A i \in {1, 2, 3, 4, 6, 7} : monthKey[i] \in DigitSet
    /\ monthKey[5] = "-"

(* MONTH_KEY_PATTERN.test(monthKey): /^\d{4}-(0[1-9]|1[0-2])$/ *)
MONTH_KEY_PATTERN(monthKey) ==
    /\ Len(monthKey) = 7
    /\ \A i \in 1..4 : monthKey[i] \in DigitSet
    /\ monthKey[5] = "-"
    /\ \/ monthKey[6] = "0" /\ monthKey[7] \in (DigitSet \ {"0"})
       \/ monthKey[6] = "1" /\ monthKey[7] \in {"0", "1", "2"}

GoalInfix == <<"-", "g", "o", "a", "l", "-">>

(* normalizeMonthlyGoalItem: JNull, or the goal. *)
normalizeMonthlyGoalItem(item, index, monthKey, clock) ==
    IF item.t \notin {"obj", "arr", "map"} THEN JNull
    ELSE LET text == IF Get(item, "text").t = "str" THEN Trim(Get(item, "text").s) ELSE <<>>
             id == IF Get(item, "id").t = "str" /\ Trim(Get(item, "id").s) # <<>>
                   THEN Trim(Get(item, "id").s)
                   ELSE monthKey \o GoalInfix \o Decimal(index + 1)
             createdAt == IF Get(item, "createdAt").t = "str" /\ DateParses(Get(item, "createdAt").s)
                          THEN IsoOf(DateParse(Get(item, "createdAt").s))
                          ELSE IsoOf(clock)
         IN  IF text = <<>> THEN JNull
             ELSE JObj([id |-> JStr(id), text |-> JStr(text),
                        done |-> JBool(Truthy(Get(item, "done"))),
                        createdAt |-> JStr(createdAt)])

RECURSIVE GoalsFlatMap(_, _, _, _)
(* goals.flatMap((goal, index) => ...) from the 1-based position i on. *)
GoalsFlatMap(goals, i, monthKey, clock) ==
    IF i > Len(goals) THEN <<>>
    ELSE LET normalizedGoal == normalizeMonthlyGoalItem(goals[i], i - 1, monthKey, clock)
         IN  (IF normalizedGoal.t = "null" THEN <<>> ELSE <<normalizedGoal>>)
                 \o GoalsFlatMap(goals, i + 1, monthKey, clock)

RECURSIVE GoalsLoop(_, _, _)
(* for (const [monthKey, goals] of entries) { ... } from position i on. *)
GoalsLoop(entries, i, clock) ==
    IF i > Len(entries) THEN <<>>
    ELSE LET monthKey == entries[i].k
             goals == entries[i].v
             normalizedGoals == GoalsFlatMap(goals.a, 1, monthKey, clock)
         IN  IF ~MONTH_KEY_PATTERN(monthKey) \/ ~IsArray(goals)
             THEN GoalsLoop(entries, i + 1, clock)
             ELSE IF Len(normalizedGoals) > 0
             THEN <<[k |-> monthKey, v |-> JArr(normalizedGoals)]>>
                      \o GoalsLoop(entries, i + 1, clock)
             ELSE GoalsLoop(entries, i + 1, clock)

normalizeStoredMonthlyGoals(raw, clock) ==
    IF raw.t \notin {"obj", "arr", "map"} THEN JMap(<<>>)
    ELSE LET entries == CASE raw.t = "map" -> raw.e
                          [] raw.t = "arr" ->
                                 [i \in 1..Len(raw.a) |-> [k |-> Decimal(i - 1), v |-> raw.a[i]]]
                          [] OTHER -> <<>>
         IN  JMap(GoalsLoop(entries, 1, clock))

Feb == <<"2", "0", "2", "6", "-", "0", "2">>
MonthKeys ==
    {Feb,
     <<"2", "0", "2", "6", "-", "1", "2">>,
     <<"2", "0", "2", "6", "-", "1", "3">>,
     <<"2", "0", "2", "6", "-", "0", "0">>,
     <<"2", "0", "2", "6", "-", "2">>,
     <<"x", "0", "2", "6", "-", "0", "2">>}

RawGoals ==
    {JNull,
     JNum(1),
     JArr(<<>>),
     JObj([id |-> JStr(<<"g">>), text |-> JStr(<<"a">>), done |-> JBool(FALSE),
           createdAt |-> JStr(<<"T", "0">>)]),
     JObj([text |-> JStr(<<" ", " ">>), done |-> JBool(TRUE)]),
     JObj([text |-> JStr(<<" ", "b">>), done |-> JNum(1), createdAt |-> JStr(<<"z">>)]),
     JObj([id |-> JStr(<<" ">>), text |-> JStr(<<"c">>)])}

(* What localStorage may hold under the key: nothing, text that is not JSON,
   or the text of a JSON value. *)
StoredGoals ==
    {Absent, Bad, Text(JNull), Text(JStr(<<"x">>)), Text(JArr(<<JArr(<<>>)>>))}
        \cup {Text(JMap(<<[k |-> key, v |-> JArr(goals)]>>)) :
                 key \in MonthKeys,
                 goals \in UNION {[1..n -> RawGoals] : n \in 0..MaxGoals}}
        \cup {Text(JMap(<<[k |-> key, v |-> JStr(<<"x">>)]>>)) : key \in MonthKeys}
        \cup {Text(JMap(<<[k |-> key, v |-> JArr(<<goal>>)],
                          [k |-> Feb, v |-> JArr(<<JNull, goal>>)]>>)) :
                 key \in MonthKeys \ {Feb}, goal \in RawGoals}

InitGoals ==
    /\ fs \in [{goalsKey} -> StoredGoals]
    /\ calls = [c \in Calls |-> IdleCall]
    /\ writeQueue = 0
    /\ faults = 0
    /\ now = 0
    /\ epoch = 0

(* The first effect of the page: read the key, parse, normalize; the state is
   {} when there is nothing stored or the text does not parse. *)
Hydrate(c) ==
    /\ calls[c].kind = "none"
    /\ IF c = 1 THEN TRUE ELSE calls[c - 1].pc = "done"
    /\ LET saved == fs[goalsKey]
           state == IF Parses(saved) THEN normalizeStoredMonthlyGoals(saved.v, now)
                    ELSE JMap(<<>>)
       IN  Set(c, [IdleCall EXCEPT !.kind = "hydrate", !.pc = "hydrated", !.run = "fulfilled",
                                   !.req = saved, !.value = state])
    /\ now' = now + 1
    /\ UNCHANGED <<fs, writeQueue, faults, epoch>>

(* The effect that follows: localStorage.setItem(key, JSON.stringify(state)) *)
SaveGoals(c) ==
    /\ calls[c].pc = "hydrated"
    /\ fs' = [fs EXCEPT ![goalsKey] = Text(calls[c].value)]
    /\ Set(c, [calls[c] EXCEPT !.pc = "done"])
    /\ UNCHANGED <<writeQueue, faults, now, epoch>>

NextGoals ==
    \/ \E c \in 1..PageLoads : Hydrate(c)
    \/ \E c \in 1..PageLoads : SaveGoals(c)

SpecGoals == InitGoals /\ [][NextGoals]_vars

-----------------------------------------------------------------------------
(* Properties *)

Updates == {c \in Calls : calls[c].kind = "update"}

PlainReads == {c \in Calls : calls[c].kind = "read"}

NoFaultYet == faults = MaxFaults

(* No call was made after c. *)
Latest(c) == \A d \in Calls : d > c => calls[d].kind = "none"

(* A plain readData that ran with no other call in progress and has settled,
   observed before any later call is made. *)
RanAlone(c) ==
    /\ calls[c].kind = "read" /\ calls[c].solo
    /\ Settled(calls[c].run)
    /\ Latest(c)

Clocks == 0..NumCalls

(* C1: once concurrent updateData calls, each appending one task with its own
   id to an empty document, have all completed, readData returns a document
   with exactly those tasks. *)
C1_NoLostUpdates ==
    \A r \in PlainReads :
        (calls[r].run = "fulfilled" /\ \A c \in Updates : calls[c].run = "fulfilled")
            => /\ TaskIds(calls[r].draft) = {TaskId(c) : c \in Updates}
               /\ Len(Get(calls[r].draft, "tasks").a) = Cardinality(Updates)

C1_Witness ==
    \E r \in PlainReads :
        /\ calls[r].run = "fulfilled"
        /\ Cardinality(Updates) = NumCalls - 1
        /\ \A c \in Updates : calls[c].run = "fulfilled"
        /\ \E c \in Updates : calls[c].solo = FALSE

Running(c) == Queued(c) /\ calls[c].started /\ calls[c].run = "pending"

(* C2: at most one job passed to enqueueWrite is between its start and its
   settlement, and a job has not started while a job enqueued before it is
   still unsettled. *)
C2_MutualExclusion ==
    /\ Cardinality({c \in Calls : Running(c)}) <= 1
    /\ \A c, d \in Calls :
           (Queued(c) /\ Queued(d) /\ d < c /\ calls[c].started) => Settled(calls[d].run)

C2_Witness ==
    \E b, c, d \in Calls :
        /\ b < c /\ c < d
        /\ Queued(b) /\ Settled(calls[b].run)
        /\ Running(c) /\ calls[c].pc = "wd_write"
        /\ Queued(d) /\ calls[d].pc = "enq"

(* C3: when updateData A is enqueued before updateData B (and no writeData
   replaces the document in between), the draft B's mutate receives holds the
   task A persisted. *)
C3_ReadAfterWrite ==
    \A a, b \in Updates :
        ( /\ a < b
          /\ calls[a].run = "fulfilled"
          /\ calls[b].pc = "mutate"
          /\ NoFaultYet
          /\ \A w \in Calls : (a < w /\ w < b) => calls[w].kind # "write" )
            => TaskId(a) \in TaskIds(calls[b].draft)

(* C4: a queued job's promise is rejected only when that job itself ran and
   threw, and every job whose promise has settled was started, whatever
   happened to the jobs before it. *)
C4_FailureIsolation ==
    \A c \in Calls :
        (Queued(c) /\ Settled(calls[c].run))
            => /\ calls[c].started
               /\ (calls[c].run = "rejected") = calls[c].threw

C4_Witness ==
    \E c, d \in Calls :
        /\ d < c /\ Queued(c) /\ Queued(d)
        /\ calls[d].run = "rejected"
        /\ calls[c].run = "fulfilled"

WriteSteps == {"wd_mkdir", "wd_copy", "wd_copy2", "wd_open", "wd_write", "wd_rename"}

Writing(c) == InProgress(c) /\ calls[c].pc \in WriteSteps

(* C5: at most one execution of writeDataToDisk is in progress at any moment,
   whichever of readData, writeData or updateData started it. *)
C5_OneWriteAtATime == Cardinality({c \in Calls : Writing(c)}) <= 1

(* C6: a plain readData that reads dashboard.json finds the complete content
   of before or after a write, never a partially written file. *)
C6_AtomicVisibility ==
    \A c \in PlainReads :
        (calls[c].pc = "rd_primary" /\ NoFaultYet) => fs[dataFile].k \notin {"empty", "torn"}

(* A call that ran alone until the process died under it. *)
Interrupted(w) == calls[w].kind # "none" /\ calls[w].solo /\ calls[w].pc = "dead"

(* C7: when a write was interrupted after it created dashboard.json.tmp and
   before it renamed it, the next readData returns the document dashboard.json
   held before that write, and not the staged content. *)
C7_InterruptedWrite ==
    \A w, c \in Calls :
        ( /\ Interrupted(w) /\ c = w + 1
          /\ RanAlone(c) /\ NoFaultYet
          /\ calls[c].at0[3] # Absent
          /\ Parses(calls[w].at0[1]) )
            => /\ calls[c].run = "fulfilled"
               /\ \E t \in Clocks : calls[c].draft = normalizeData(calls[w].at0[1].v, t)

C7_Witness ==
    \E w, c \in Calls :
        /\ Interrupted(w) /\ c = w + 1
        /\ RanAlone(c) /\ NoFaultYet
        /\ Parses(calls[w].at0[1]) /\ Parses(calls[c].at0[3])
        /\ calls[c].at0[3] # calls[w].at0[1]
        /\ calls[c].run = "fulfilled"

(* C8: when dashboard.json is not JSON and dashboard.backup.json is, readData
   returns the normalized backup document and dashboard.json then holds that
   document. *)
C8_RecoveryFromBackup ==
    \A c \in Calls :
        ( /\ RanAlone(c) /\ NoFaultYet
          /\ calls[c].at0[1].k \in {"bad", "empty", "torn"}
          /\ Parses(calls[c].at0[2]) )
            => /\ calls[c].run = "fulfilled"
               /\ \E t \in Clocks : calls[c].draft = normalizeData(calls[c].at0[2].v, t)
               /\ fs[dataFile] = Text(calls[c].draft)

C8_Witness ==
    \E c \in Calls :
        /\ RanAlone(c) /\ NoFaultYet
        /\ calls[c].at0[1] = Bad /\ calls[c].at0[2] = Text(EditedDoc)
        /\ calls[c].run = "fulfilled"
        /\ Len(Get(calls[c].draft, "tasks").a) = 1

(* C9: a plain readData does not reject when no I/O failure other than
   missing, unreadable or invalid files occurs, whatever other calls it
   overlaps with. *)
C9_LoadNeverRejects ==
    \A c \in PlainReads : NoFaultYet => calls[c].run # "rejected"

(* C10: when neither file can be read and parsed, readData writes the empty
   default document to dashboard.json and returns it. *)
C10_DefaultFallback ==
    \A c \in Calls :
        ( /\ RanAlone(c) /\ NoFaultYet
          /\ ~Parses(calls[c].at0[1]) /\ ~Parses(calls[c].at0[2]) )
            => /\ calls[c].run = "fulfilled"
               /\ calls[c].draft = createDefaultData
               /\ fs[dataFile] = Text(createDefaultData)

(* A call that ran with no other call in progress and completed, observed
   before any later call is made. *)
CompletedAlone(c) ==
    /\ calls[c].kind # "none" /\ calls[c].solo
    /\ calls[c].run = "fulfilled"
    /\ Latest(c)

(* C11: once a call has completed a write over an existing dashboard.json,
   dashboard.backup.json is a parsable file, and it holds the document
   dashboard.json held before the most recent write when that was valid. *)
C11_BackupLastKnownGood ==
    \A c \in Calls :
        ( /\ CompletedAlone(c) /\ NoFaultYet
          /\ calls[c].at0[1] # Absent
          /\ (Queued(c) \/ ~Parses(calls[c].at0[1])) )
            => /\ Parses(fs[backupFile])
               /\ (Queued(c) /\ Parses(calls[c].at0[1])) => fs[backupFile] = calls[c].at0[1]

(* A step in which a file-system call of the write sequence of call c fails:
   an injected I/O failure, a copy that cannot open its files, or a rename
   whose source is gone. *)
WriteFails(c) ==
    /\ InProgress(c) /\ calls[c].pc \in WriteSteps
    /\ calls'[c].pc \notin {calls[c].pc, "dead"}
    /\ \/ faults' < faults
       \/ calls[c].pc = "wd_copy" /\ fs[dataFile] # Absent
                                  /\ NoPerm \in {fs[dataFile], fs[backupFile]}
       \/ calls[c].pc = "wd_rename" /\ fs[tempFile] = Absent

(* C12: when a file-system step of a write sequence fails, the call that
   started the write (writeData, updateData, or readData on its recovery
   path) is rejected with that failure in the same step. *)
C12_FatalErrorsPropagate ==
    [][\A c \in Calls : WriteFails(c) => calls'[c].run = "rejected"]_vars

(* C13: an updateData that completes gives its caller the value its mutate
   callback returned, and dashboard.json then holds the re-normalized draft,
   whether that value is a success or a business failure. *)
C13_UpdateReturnsOutcome ==
    \A c \in Updates :
        calls[c].run = "fulfilled"
            => /\ calls[c].value = calls[c].result
               /\ (CompletedAlone(c) /\ NoFaultYet) =>
                      \E t \in Clocks :
                          /\ calls[c].result = mutate(calls[c].req, calls[c].draft, c, t).result
                          /\ fs[dataFile] =
                                 Text(normalizeData(mutate(calls[c].req, calls[c].draft, c, t).draft, t))

C13_Witness ==
    \E c \in Updates :
        /\ CompletedAlone(c) /\ NoFaultYet
        /\ calls[c].req.t = "request"
        /\ ~calls[c].value.ok /\ calls[c].value.status = 404
        /\ calls[c].at0[2] = Absent /\ fs[backupFile] = calls[c].at0[1]

(* A stored document in normal form: what the store itself writes. *)
NormalForm(content) ==
    Parses(content) /\ \E t \in Clocks : normalizeData(content.v, t) = content.v

Urls(doc) == {Launchpad(doc)[i].f.url : i \in 1..Len(Launchpad(doc))}

(* C14: a launchpad POST whose normalized url is the url of a stored item
   returns the 409 outcome and leaves the stored launchpad collection as it
   was. *)
C14_CreateConflict ==
    \A c \in Updates :
        ( /\ CompletedAlone(c) /\ NoFaultYet
          /\ calls[c].req.t = "request" /\ calls[c].req.op = "post"
          /\ NormalForm(calls[c].at0[1])
          /\ calls[c].req.url \in Urls(calls[c].at0[1].v) )
            => /\ calls[c].value = Failure(409)
               /\ Parses(fs[dataFile])
               /\ Launchpad(fs[dataFile].v) = Launchpad(calls[c].at0[1].v)

C14_Witness ==
    \E c \in Updates :
        /\ CompletedAlone(c) /\ NoFaultYet
        /\ calls[c].req.t = "request" /\ calls[c].req.op = "post"
        /\ calls[c].at0[1] = Text(LaunchDoc)
        /\ calls[c].req.url = JStr(UrlA)
        /\ calls[c].value.status = 409

(* C15: no two items of the stored launchpad collection have the same url. *)
C15_UrlUniqueness ==
    Parses(fs[dataFile])
        => Cardinality(Urls(fs[dataFile].v)) = Len(Launchpad(fs[dataFile].v))

(* The readData calls whose handler has saved with a writeData that completed. *)
Handled ==
    {r \in PlainReads :
        \E w \in Calls : /\ calls[w].kind = "write" /\ calls[w].run = "fulfilled"
                         /\ TaskId(r) \in TaskIds(calls[w].payload)}

(* C16: when concurrent requests that each create a task have completed,
   dashboard.json holds the task of every one of them. *)
C16_HandlersTransactional ==
    ( /\ \A c \in Calls : calls[c].kind # "none" => Settled(calls[c].run)
      /\ Parses(fs[dataFile]) )
        => \A r \in Handled : TaskId(r) \in TaskIds(fs[dataFile].v)

(* The documents normalizeData has returned: to readData, and to writeData
   and updateData for the payload they write. *)
Normalized ==
    {calls[c].draft : c \in {d \in Calls : calls[d].draft # JNull}}
        \cup {calls[c].payload : c \in {d \in Calls : calls[d].payload # JNull}}

(* A readData that loaded dashboard.json as it was when the call was made. *)
Loaded(c) ==
    /\ calls[c].kind = "read" /\ calls[c].solo /\ calls[c].run = "fulfilled"
    /\ NoFaultYet
    /\ Parses(calls[c].at0[1])

(* C17: whatever JSON value is stored, normalizeData returns a document with
   exactly the five collections, each an array. *)
C17_NormalizeTotal ==
    \A doc \in Normalized :
        /\ doc.t = "obj"
        /\ DOMAIN doc.f = Collections
        /\ \A k \in Collections : IsArray(doc.f[k])

C17_Witness ==
    \E c \in Calls :
        /\ Loaded(c)
        /\ Get(calls[c].at0[1].v, "tasks") = JStr(<<"x">>)
        /\ Get(calls[c].at0[1].v, "events") = JUndef
        /\ calls[c].draft = createDefaultData

(* C18: a document normalizeData returned is returned unchanged by a second
   pass, at whatever time the second pass runs. *)
C18_NormalizeIdempotent ==
    \A doc \in Normalized : \A t \in Clocks : normalizeData(doc, t) = doc

C18_Witness ==
    \E c \in Calls :
        /\ Loaded(c)
        /\ IsArray(Get(calls[c].at0[1].v, "tasks"))
        /\ Len(Get(calls[c].at0[1].v, "tasks").a) = 2
        /\ Len(Get(calls[c].draft, "tasks").a) = 1
        /\ Get(calls[c].draft, "tasks").a[1].f.id = asFallbackId(PrefixTask, 1, JStr(<<"c">>))

IdsOf(doc, k) == {Get(doc, k).a[i].f.id : i \in 1..Len(Get(doc, k).a)}

(* C19: in a document normalizeData returned, no two entities of one
   collection have the same id. *)
C19_UniqueIds ==
    \A doc \in Normalized : \A k \in Collections :
        Cardinality(IdsOf(doc, k)) = Len(Get(doc, k).a)

(* The stored elements of a collection that normalizeData keeps. *)
Kept(raw, k) ==
    IF IsArray(Get(raw, k))
    THEN SelectSeq(Get(raw, k).a, LAMBDA item : normalizeItem(k, item, 0, 0) # <<>>)
    ELSE <<>>

(* The values JavaScript takes for false. *)
Falsy == {JBool(FALSE), JNum(0), JStr(<<>>), JNull, JUndef}

DoneByTruthiness(c) ==
    LET kept == Kept(calls[c].at0[1].v, "tasks")
        out == Get(calls[c].draft, "tasks").a
    IN  /\ Len(out) = Len(kept)
        /\ \A i \in 1..Len(kept) : out[i].f.done = JBool(Get(kept[i], "done") \notin Falsy)

(* C20 as claimed: done and enabled of every stored entity are true exactly
   when the stored value is truthy. *)
C20_BooleansByTruthiness ==
    \A c \in Calls :
        Loaded(c) =>
            /\ DoneByTruthiness(c)
            /\ LET kept == Kept(calls[c].at0[1].v, "launchpad")
                   out == Get(calls[c].draft, "launchpad").a
               IN  /\ Len(out) = Len(kept)
                   /\ \A i \in 1..Len(kept) :
                          out[i].f.enabled = JBool(Get(kept[i], "enabled") \notin Falsy)

(* C20 amended: done is true exactly when the stored value is truthy; enabled
   is the stored value when that is a boolean, and true otherwise. *)
C20_BooleanCoercion ==
    \A c \in Calls :
        Loaded(c) =>
            /\ DoneByTruthiness(c)
            /\ LET kept == Kept(calls[c].at0[1].v, "launchpad")
                   out == Get(calls[c].draft, "launchpad").a
               IN  /\ Len(out) = Len(kept)
                   /\ \A i \in 1..Len(kept) :
                          out[i].f.enabled = IF Get(kept[i], "enabled").t = "bool"
                                             THEN Get(kept[i], "enabled") ELSE JBool(TRUE)

C20_Witness ==
    \E c \in Calls :
        /\ Loaded(c)
        /\ \E i \in 1..Len(Kept(calls[c].at0[1].v, "tasks")) :
               /\ Get(Kept(calls[c].at0[1].v, "tasks")[i], "done") = JStr(<<"x">>)
               /\ Get(calls[c].draft, "tasks").a[i].f.done = JBool(TRUE)
        /\ \E i \in 1..Len(Kept(calls[c].at0[1].v, "launchpad")) :
               /\ Get(Kept(calls[c].at0[1].v, "launchpad")[i], "enabled") = JNull
               /\ Get(calls[c].draft, "launchpad").a[i].f.enabled = JBool(TRUE)

(* C21: whenever no write sequence is in progress (before the first call and
   after calls have settled, with or without an I/O failure),
   dashboard.json.tmp does not exist. *)
C21_StagingFileTransient ==
    (\A c \in Calls : ~Writing(c)) => fs[tempFile] = Absent

(* The stored document before the first call. *)
InitialFile == IF calls[1].kind = "none" THEN fs[dataFile] ELSE calls[1].at0[1]

Patches == {c \in Calls : calls[c].req.t = "request" /\ calls[c].req.op = "patch"}

(* The position of the item a PATCH with this id edits: the first with the id. *)
FirstIndex(doc, id) ==
    CHOOSE i \in 1..Len(Launchpad(doc)) :
        /\ Launchpad(doc)[i].f.id = id
        /\ \A j \in 1..(i - 1) : Launchpad(doc)[j].f.id # id

(* The PATCH requests that have completed a launch of the item at position i. *)
Launches(i) ==
    {c \in Patches :
        /\ calls[c].run = "fulfilled"
        /\ calls[c].value.ok
        /\ calls[c].req.action.t = "str"
        /\ FirstIndex(InitialFile.v, calls[c].req.id) = i}

(* C22: while only PATCH requests are made, the stored launchCount of every
   item is a non-negative integer equal to its first value plus the number of
   launches of it that have succeeded so far. *)
C22_LaunchCountMonotone ==
    ( /\ \A c \in Calls : calls[c].kind # "none" => c \in Patches
      /\ NoFaultYet )
        => /\ Parses(fs[dataFile])
           /\ Len(Launchpad(fs[dataFile].v)) = Len(Launchpad(InitialFile.v))
           /\ \A i \in 1..Len(Launchpad(InitialFile.v)) :
                  LET count == Launchpad(fs[dataFile].v)[i].f.launchCount
                  IN  /\ count.t = "num" /\ ~count.half /\ count.n >= 0
                      /\ count.n = Launchpad(InitialFile.v)[i].f.launchCount.n
                                       + Cardinality(Launches(i))

C22_Witness ==
    /\ \A c \in 1..LaunchCalls : c \in Patches /\ calls[c].run = "fulfilled"
    /\ NoFaultYet
    /\ \E c, d \in Patches :
           /\ calls[c].value.ok /\ calls[c].req.action.t = "str"
           /\ ~calls[d].value.ok /\ calls[d].value.status = 400
    /\ Launchpad(fs[dataFile].v)[1].f.launchCount = JNum(1)

(* A PATCH that ran with no other call in progress on a stored document in
   normal form, and completed. *)
PatchedAlone(c) ==
    /\ c \in Patches
    /\ CompletedAlone(c) /\ NoFaultYet
    /\ NormalForm(calls[c].at0[1])
    /\ Parses(fs[dataFile])
    /\ Len(Launchpad(fs[dataFile].v)) = Len(Launchpad(calls[c].at0[1].v))

Edited(old, new) ==
    \/ old.f.name # new.f.name
    \/ old.f.url # new.f.url
    \/ old.f.description # new.f.description
    \/ old.f.enabled # new.f.enabled
    \/ old.f.launchCount # new.f.launchCount

(* C23: when a PATCH has changed the name, url, description or enabled of a
   stored item, or recorded a launch, the stored updatedAt of the item is the
   time of that request. *)
C23_UpdatedAtTracksChanges ==
    \A c \in Calls :
        PatchedAlone(c) =>
            \A i \in 1..Len(Launchpad(fs[dataFile].v)) :
                Edited(Launchpad(calls[c].at0[1].v)[i], Launchpad(fs[dataFile].v)[i])
                    => Launchpad(fs[dataFile].v)[i].f.updatedAt = JStr(IsoOf(now))

(* C27: a PATCH that returns a business failure (404, 409, 400) leaves every
   stored launchpad item as it was before the request. *)
C27_FailedPatchChangesNothing ==
    \A c \in Calls :
        (PatchedAlone(c) /\ ~calls[c].value.ok)
            => Launchpad(fs[dataFile].v) = Launchpad(calls[c].at0[1].v)

(* C24: every job passed to enqueueWrite is started and its caller receives
   its outcome in the end, however many jobs were enqueued before it and
   whether or not they failed. *)
C24_NoStarvation ==
    \A c \in Calls : Queued(c) ~> (calls[c].started /\ Settled(calls[c].run))

C24_Witness ==
    \E b, c, d \in Calls :
        /\ b < c /\ c < d
        /\ Queued(b) /\ Queued(c) /\ Queued(d)
        /\ calls[c].run = "rejected" /\ calls[c].threw
        /\ calls[b].run = "fulfilled"
        /\ calls[d].started /\ calls[d].run = "fulfilled"

(* A month key YYYY-MM with a month from 01 to 12. *)
ValidMonth(key) ==
    /\ Len(key) = 7
    /\ AllDigits(SubSeq(key, 1, 4)) /\ key[5] = "-" /\ AllDigits(SubSeq(key, 6, 7))
    /\ DecimalValue(SubSeq(key, 6, 7)) \in 1..12

HasText(goal) ==
    goal.t = "obj" /\ Get(goal, "text").t = "str" /\ Trim(Get(goal, "text").s) # <<>>

(* The positions (from 1) of the goals of a stored list that have a text. *)
TextPositions(goals) == {i \in 1..Len(goals) : HasText(goals[i])}

(* The position of the j-th goal that has a text. *)
NthText(goals, j) ==
    CHOOSE i \in TextPositions(goals) :
        Cardinality({p \in TextPositions(goals) : p <= i}) = j

(* The stored entries that are to be kept. *)
ValidEntries(raw) ==
    IF raw.t # "map" THEN <<>>
    ELSE SelectSeq(raw.e, LAMBDA entry :
             /\ ValidMonth(entry.k)
             /\ IsArray(entry.v)
             /\ TextPositions(entry.v.a) # {})

(* C25: the goals the page holds after loading are the stored entries with a
   key YYYY-MM (month 01..12) and an array holding a goal with a text; each
   list holds exactly the goals with a text, in order, and a goal stored
   without an id has the id <monthKey>-goal-<position + 1>. *)
C25_MonthlyGoalsKept ==
    \A c \in Calls :
        (calls[c].kind = "hydrate" /\ Parses(calls[c].req)) =>
            LET entries == ValidEntries(calls[c].req.v)
                out == calls[c].value.e
            IN  /\ Len(out) = Len(entries)
                /\ \A n \in 1..Len(entries) :
                       LET goals == entries[n].v.a
                           list == out[n].v.a
                       IN  /\ out[n].k = entries[n].k
                           /\ Len(list) = Cardinality(TextPositions(goals))
                           /\ \A j \in 1..Len(list) :
                                  LET goal == goals[NthText(goals, j)]
                                  IN  /\ list[j].f.text = JStr(Trim(Get(goal, "text").s))
                                      /\ Get(goal, "id").t = "undef" =>
                                             list[j].f.id = JStr(entries[n].k \o GoalInfix
                                                                   \o Decimal(NthText(goals, j)))

C25_Witness ==
    \E c \in Calls :
        /\ calls[c].kind = "hydrate" /\ Parses(calls[c].req)
        /\ calls[c].req.v.t = "map"
        /\ Len(calls[c].req.v.e) = 2 /\ Len(calls[c].value.e) = 1
        /\ calls[c].value.e[1].k = Feb
        /\ calls[c].value.e[1].v.a[1].f.id = JStr(Feb \o GoalInfix \o <<"2">>)

(* An absolute http or https url, as URL.toString() writes it. *)
HttpUrl(url) == url.t = "str" /\ Len(url.s) >= 2 /\ Head(url.s) = "h"

(* The urls a launchpad POST or PATCH handler passed to its callback. *)
RequestUrls ==
    {calls[c].req.url :
        c \in {d \in Calls : /\ calls[d].req.t = "request"
                             /\ calls[d].req.op \in {"post", "patch"}
                             /\ calls[d].req.url # JNull}}

(* The items the launchpad handlers returned as created or edited. *)
HandledItems ==
    {calls[c].value.item :
        c \in {d \in Calls : /\ calls[d].req.t = "request"
                             /\ calls[d].run = "fulfilled"
                             /\ calls[d].value.ok}}

(* C26: every launchpad item of a document normalizeData returned, every url
   a POST or PATCH handler accepted, and every item such a handler created or
   edited has an absolute http or https url. *)
C26_UrlsAreHttp ==
    /\ \A doc \in Normalized :
           \A i \in 1..Len(Launchpad(doc)) : HttpUrl(Launchpad(doc)[i].f.url)
    /\ \A url \in RequestUrls : HttpUrl(url)
    /\ \A item \in HandledItems : HttpUrl(item.f.url)

C26_Witness ==
    \E c \in Updates :
        /\ calls[c].solo /\ calls[c].run = "fulfilled"
        /\ calls[c].req.t = "request" /\ calls[c].req.op = "post"
        /\ Parses(calls[c].at0[1])
        /\ Len(Launchpad(calls[c].at0[1].v)) = 1
        /\ Launchpad(calls[c].at0[1].v)[1].f.url = JStr(<<"f", "a">>)
        /\ calls[c].value.ok
        /\ Len(Launchpad(calls[c].payload)) = 1
        /\ \E d \in Updates : d < c /\ calls[d].req.t = "request" /\ calls[d].req.op = "patch"

(* C28: once a plain readData and an updateData that ran at the same time
   have both completed, with no other call and no I/O failure, dashboard.json
   holds the task the update's callback appended. *)
C28_ReadKeepsUpdate ==
    \A r \in PlainReads, u \in Updates :
        ( /\ calls[r].run = "fulfilled" /\ calls[u].run = "fulfilled"
          /\ \A d \in Calls \ {r, u} : calls[d].kind = "none"
          /\ NoFaultYet )
            => /\ Parses(fs[dataFile])
               /\ TaskId(u) \in TaskIds(fs[dataFile].v)

(* The step in which the callback of updateData call c throws. *)
MutateThrows(c) ==
    calls[c].pc = "mutate" /\ calls'[c] # calls[c] /\ faults' < faults

(* C29: when the callback passed to updateData throws, the call rejects
   without entering the write sequence, both files stay as they are, the job
   queued behind it is let run, and the rejected call takes no further step. *)
C29_ThrowingMutateAborts ==
    [][\A c \in Calls :
           /\ MutateThrows(c) =>
                  /\ calls'[c].run = "rejected" /\ calls'[c].pc = "done"
                  /\ calls'[c].payload = calls[c].payload /\ calls'[c].ctx = calls[c].ctx
                  /\ fs' = fs
                  /\ \A d \in Calls :
                         (calls[d].pc = "enq" /\ calls[d].pred = c)
                             => enqueueWriteChain(calls'[c].run) = "job"
           /\ (calls[c].kind = "update" /\ calls[c].run = "rejected")
                  => calls'[c] = calls[c]]_vars

C29_Witness ==
    \E c, d \in Calls :
        /\ calls[c].kind = "update" /\ calls[c].run = "rejected"
        /\ calls[c].draft # JNull /\ calls[c].payload = JNull
        /\ Queued(d) /\ calls[d].pred = c
        /\ calls[d].started /\ calls[d].run = "fulfilled"

(* C30: when dashboard.json is corrupt and dashboard.backup.json is valid and
   the process dies at any step of the readData that recovers from the
   backup, the next readData after the restart returns the backup's
   document. *)
C30_RecoveryCrashSafe ==
    \A w, c \in Calls :
        ( /\ Interrupted(w) /\ calls[w].kind = "read"
          /\ calls[w].at0[1] = Bad /\ Parses(calls[w].at0[2])
          /\ c = w + 1
          /\ RanAlone(c) /\ NoFaultYet )
            => /\ calls[c].run = "fulfilled"
               /\ \E t \in Clocks : calls[c].draft = normalizeData(calls[w].at0[2].v, t)

====
